---- MODULE Spec2Model ----
(***************************************************************************)
(* Model of arbitragelab's copula_approach back end:                       *)
(*   copula_calculation.py                 (marginal CDF, ML fit, criteria)*)
(*   vine_copula_partner_selection.py      (PartnerSelection)              *)
(*   vine_copula_partner_selection_utils.py (the four scorers)             *)
(*                                                                         *)
(* Real numbers are exact rationals <<num, den>> with den > 0 unless said  *)
(* otherwise; Python's None is the record [tag |-> "None"].                *)
(***************************************************************************)
EXTENDS Integers, Sequences, FiniteSets, TLC

VARIABLES
    request,        \* copula_calculation: the call made and its arguments
    fitted_cdf,     \* copula_calculation: the function find_marginal_cdf returned
    calc,           \* copula_calculation: what the last call returned or raised
    prices,         \* PartnerSelection: the argument of the constructor
    ctor,           \* PartnerSelection: how __init__ ended
    ps,             \* PartnerSelection: the attributes of self
    sel,            \* PartnerSelection: the last selection method call and its outcome
    cov_builds,     \* number of times the 16x16 matrix was integrated and inverted
    cov_loop        \* get_co_variance_matrix: position in its loop, matrix, integrals

calcVars == <<request, fitted_cdf, calc>>
selVars == <<prices, ctor, ps, sel, cov_builds>>
vars == <<request, fitted_cdf, calc, prices, ctor, ps, sel, cov_builds, cov_loop>>

None == [tag |-> "None"]

----------------------------------------------------------------------------
(* Bounds of the copula_calculation model.                                 *)

MaxLen == 2        \* longest sample / data vector
MaxVal == 2        \* sample values are 1..MaxVal
MaxN == 4          \* largest number of instances n handed to aic
MaxK == 2          \* largest number of parameters k handed to aic

----------------------------------------------------------------------------
(* Rationals.                                                              *)

RLt(a, b) == a[1] * b[2] < b[1] * a[2]
RLeq(a, b) == a[1] * b[2] <= b[1] * a[2]
REq(a, b) == a[1] * b[2] = b[1] * a[2]

SeqsUpTo(S, lo, hi) == UNION {[1..n -> S] : n \in lo..hi}

----------------------------------------------------------------------------
(* find_marginal_cdf                                                       *)

\* np.sort as used by ECDF.__init__ (x.sort()): ascending insertion sort.
RECURSIVE InsertSorted(_, _)
InsertSorted(s, v) ==
    IF s = <<>> THEN <<v>>
    ELSE IF v < Head(s) THEN <<v>> \o s
    ELSE <<Head(s)>> \o InsertSorted(Tail(s), v)

RECURSIVE SortAsc(_)
SortAsc(s) == IF s = <<>> THEN <<>> ELSE InsertSorted(SortAsc(Tail(s)), Head(s))

\* np.searchsorted(sorted, v, side='right'): the number of leading entries
\* that are <= v.
RECURSIVE SearchSortedRight(_, _)
SearchSortedRight(s, v) ==
    IF s = <<>> THEN 0
    ELSE IF Head(s) <= v THEN 1 + SearchSortedRight(Tail(s), v)
    ELSE 0

\* statsmodels ECDF(x)(data): step function through (sorted x, i/nobs),
\* right-continuous, 0 left of the smallest observation.
ECDF(x, data) == <<SearchSortedRight(SortAsc(x), data), Len(x)>>

\* Python's min(a, b) and max(a, b): the first argument unless the second
\* is strictly smaller (larger).
PyMin(a, b) == IF RLt(b, a) THEN b ELSE a
PyMax(a, b) == IF RLt(a, b) THEN b ELSE a

\* A plausible slip: the floor is never applied.
FittedCdfNoFloor(cdf, data) == PyMin(ECDF(cdf.x, data), cdf.prob_cap)

\* fitted_cdf = lambda data: max(min(ECDF(x)(data), prob_cap), prob_floor)
FittedCdf(cdf, data) ==
    PyMax(PyMin(ECDF(cdf.x, data), cdf.prob_cap), cdf.prob_floor)

\* np.vectorize(fitted_cdf): element-wise over an array of query points; a
\* scalar is the array of length one.
VFittedCdf(cdf, data) == [i \in 1..Len(data) |-> FittedCdf(cdf, data[i])]

\* find_marginal_cdf(x, empirical, prob_floor=..., prob_cap=...)
find_marginal_cdf(x, empirical, prob_floor, prob_cap) ==
    IF empirical
    THEN [tag |-> "cdf", x |-> x, prob_floor |-> prob_floor, prob_cap |-> prob_cap]
    ELSE None

Samples == SeqsUpTo(1..MaxVal, 1, MaxLen)
Probs == {<<0, 1>>, <<1, 4>>, <<1, 2>>, <<1, 1>>}
Queries == SeqsUpTo(0..(MaxVal + 1), 1, 2)

FindMarginalCdfRequests ==
    [op : {"find_marginal_cdf"}, x : Samples, empirical : BOOLEAN,
     prob_floor : Probs, prob_cap : Probs, data : Queries]

CallFindMarginalCdf ==
    /\ request.op = "find_marginal_cdf"
    /\ calc.op = "none"
    /\ fitted_cdf' = find_marginal_cdf(request.x, request.empirical,
                                       request.prob_floor, request.prob_cap)
    /\ calc' = [op |-> "find_marginal_cdf"]
    /\ UNCHANGED <<request, selVars, cov_loop>>

\* The caller applies the returned function to its query points.
CallFittedCdf ==
    /\ calc.op = "find_marginal_cdf"
    /\ fitted_cdf.tag = "cdf"
    /\ calc' = [op |-> "fitted_cdf", out |-> VFittedCdf(fitted_cdf, request.data)]
    /\ UNCHANGED <<request, fitted_cdf, selVars, cov_loop>>

----------------------------------------------------------------------------
(* The copula catalogue (copula_generate.Switcher and the copula classes). *)

\* Switcher.choose_copula(copula_name=..., theta=..., cov=..., nu=...): the
\* model of the named family, holding the parameters it was given.
choose_copula(copula_name, theta, cov, nu) ==
    [tag |-> "copula", family |-> copula_name, theta |-> theta, cov |-> cov, nu |-> nu]

\* my_copula.theta_hat(tau): the family's tau-to-parameter inversion, kept
\* symbolic.
theta_hat(my_copula, tau) ==
    [tag |-> "theta_hat", family |-> my_copula.family, tau |-> tau]

theta_copula_names == {"Gumbel", "Clayton", "Frank", "Joe", "N13", "N14"}
CatalogueNames == theta_copula_names \cup {"Gaussian", "Student"}

----------------------------------------------------------------------------
(* ml_theta_hat                                                            *)

Sign(v) == IF v > 0 THEN 1 ELSE IF v < 0 THEN -1 ELSE 0

RECURSIVE SumOver(_, _)
SumOver(S, f) ==
    IF S = {} THEN 0
    ELSE LET e == CHOOSE e \in S : TRUE IN f[e] + SumOver(S \ {e}, f)

IndexPairs(n) == {p \in (1..n) \X (1..n) : p[1] < p[2]}

\* ss.kendalltau(x, y)[0], tau-b: (con - dis) / sqrt((tot - xtie)(tot - ytie)),
\* nan when one of the vectors is constant. The value is kept as the
\* numerator and the square of the denominator.
kendalltau(x, y) ==
    LET P == IndexPairs(Len(x))
        tot == Cardinality(P)
        xtie == Cardinality({p \in P : x[p[1]] = x[p[2]]})
        ytie == Cardinality({p \in P : y[p[1]] = y[p[2]]})
        s == SumOver(P, [p \in P |-> Sign(x[p[1]] - x[p[2]]) * Sign(y[p[1]] - y[p[2]])])
    IN  IF xtie = tot \/ ytie = tot
        THEN [tag |-> "nan"]
        ELSE [tag |-> "tau", num |-> s, densq |-> (tot - xtie) * (tot - ytie)]

dud_cov == <<<<1, 0>>, <<0, 1>>>>

Return(v) == [status |-> "return", value |-> v]
Raise(e) == [status |-> "raise", err |-> e]

\* ml_theta_hat(x, y, copula_name): no branch on copula_name; the model is
\* created by name with dud_cov and asked for theta_hat(tau).
ml_theta_hat(x, y, copula_name) ==
    LET tau == kendalltau(x, y)
        my_copula == choose_copula(copula_name, None, dud_cov, None)
    IN  Return(theta_hat(my_copula, tau))

UnifData == SeqsUpTo(1..MaxVal, 2, MaxLen)

\* x and y have the same length.
DataPairs == {p \in UnifData \X UnifData : Len(p[1]) = Len(p[2])}

MlThetaHatRequests ==
    [op : {"ml_theta_hat"}, xy : DataPairs, copula_name : CatalogueNames]

CallMlThetaHat ==
    /\ request.op = "ml_theta_hat"
    /\ calc.op = "none"
    /\ calc' = [op |-> "ml_theta_hat",
                out |-> ml_theta_hat(request.xy[1], request.xy[2], request.copula_name)]
    /\ UNCHANGED <<request, fitted_cdf, selVars, cov_loop>>

----------------------------------------------------------------------------
(* log_ml                                                                  *)

\* EmpiricalCovariance().fit(ppf(unif_data)).covariance_, kept symbolic: the
\* quantile function used and the data it was estimated from.
cov_hat(quantile, x, y) == [tag |-> "cov_hat", quantile |-> quantile, x |-> x, y |-> y]

RECURSIVE SeqProd(_)
SeqProd(s) == IF s = <<>> THEN 1 ELSE Head(s) * SeqProd(Tail(s))

\* np.sum(np.log(likelihood_list)): log of a positive number is finite, of
\* zero is -inf, of a negative number is nan (numpy warns, it does not
\* raise). A finite sum of logs is the log of the product.
log_likelihood_sum(likelihood_list) ==
    IF \E i \in DOMAIN likelihood_list : likelihood_list[i] < 0
    THEN [tag |-> "nan"]
    ELSE IF \E i \in DOMAIN likelihood_list : likelihood_list[i] = 0
    THEN [tag |-> "-inf"]
    ELSE [tag |-> "log", of |-> SeqProd(likelihood_list)]

\* The three branches of log_ml that bind my_copula. The result records
\* what was done along the way: estimated (a covariance was estimated) and
\* my_copula (the model constructed, None when none was).
Fitted(c, est) == [failed |-> FALSE, my_copula |-> c, estimated |-> est]
FitFailed(e, est) == [failed |-> TRUE, err |-> e, my_copula |-> None, estimated |-> est]

\* A plausible slip: the Student model is constructed without nu.
fit_copula_drop_nu(x, y, copula_name, nu) ==
    IF copula_name \in theta_copula_names
    THEN Fitted(choose_copula(copula_name, ml_theta_hat(x, y, copula_name).value, None, None), FALSE)
    ELSE IF copula_name = "Gaussian"
    THEN Fitted(choose_copula(copula_name, None, cov_hat("norm", x, y), None), TRUE)
    ELSE IF copula_name = "Student"
    THEN IF nu = None
         THEN FitFailed("TypeError", FALSE)
         ELSE Fitted(choose_copula(copula_name, None, cov_hat(<<"t", nu>>, x, y), None), TRUE)
    ELSE FitFailed("UnboundLocalError", FALSE)

\* log_ml, lines 103-137. With copula_name "Student" and nu None the frozen
\* ss.t(df=None) is built, and its ppf raises TypeError when it checks
\* df > 0, before the covariance is estimated. A name outside all three
\* branches leaves my_copula unbound.
fit_copula(x, y, copula_name, nu) ==
    IF copula_name \in theta_copula_names
    THEN Fitted(choose_copula(copula_name, ml_theta_hat(x, y, copula_name).value, None, None), FALSE)
    ELSE IF copula_name = "Gaussian"
    THEN Fitted(choose_copula(copula_name, None, cov_hat("norm", x, y), None), TRUE)
    ELSE IF copula_name = "Student"
    THEN IF nu = None
         THEN FitFailed("TypeError", FALSE)
         ELSE Fitted(choose_copula(copula_name, None, cov_hat(<<"t", nu>>, x, y), nu), TRUE)
    ELSE FitFailed("UnboundLocalError", FALSE)

\* log_ml(x, y, copula_name, nu); likelihood_list stands for the values
\* my_copula.c(xi, yi) the fitted model gives on the data pairs.
log_ml(x, y, copula_name, nu, likelihood_list) ==
    LET fit == fit_copula(x, y, copula_name, nu)
    IN  IF fit.failed
        THEN [status |-> "raise", err |-> fit.err,
              my_copula |-> None, estimated |-> fit.estimated]
        ELSE [status |-> "return",
              value |-> <<log_likelihood_sum(likelihood_list), fit.my_copula>>,
              my_copula |-> fit.my_copula, estimated |-> fit.estimated]

Densities == -1..2
Nus == {None, [tag |-> "nu", df |-> 3], [tag |-> "nu", df |-> 5]}

LogMlRequests ==
    {r \in [op : {"log_ml"}, xy : DataPairs,
            copula_name : CatalogueNames \cup {"Other"}, nu : Nus,
            likelihood_list : SeqsUpTo(Densities, 2, MaxLen)] :
        Len(r.likelihood_list) = Len(r.xy[1])}

CallLogMl ==
    /\ request.op = "log_ml"
    /\ calc.op = "none"
    /\ calc' = [op |-> "log_ml",
                out |-> log_ml(request.xy[1], request.xy[2], request.copula_name,
                               request.nu, request.likelihood_list)]
    /\ UNCHANGED <<request, fitted_cdf, selVars, cov_loop>>

----------------------------------------------------------------------------
(* Information criteria                                                    *)

\* aic_value = (2*n/(n-k-1))*k - 2*log_likelihood with Python ints n, k:
\* ZeroDivisionError when n-k-1 = 0, otherwise the quotient, whatever the
\* sign of n-k-1. The value is <<num, den>> with den = n-k-1 (not made
\* positive).
aic(log_likelihood, n, k) ==
    IF n - k - 1 = 0
    THEN Raise("ZeroDivisionError")
    ELSE Return(<<2 * n * k - 2 * log_likelihood * (n - k - 1), n - k - 1>>)

LogLikelihoods == -1..1

AicRequests ==
    [op : {"aic"}, log_likelihood : LogLikelihoods, n : 1..MaxN, k : 1..MaxK]

CallAic ==
    /\ request.op = "aic"
    /\ calc.op = "none"
    /\ calc' = [op |-> "aic", out |-> aic(request.log_likelihood, request.n, request.k)]
    /\ UNCHANGED <<request, fitted_cdf, selVars, cov_loop>>

----------------------------------------------------------------------------
\* One call of the module per behaviour: the arguments are fixed by Init.
InitCalc ==
    /\ request \in FindMarginalCdfRequests \cup MlThetaHatRequests
                    \cup LogMlRequests \cup AicRequests
    /\ fitted_cdf = None
    /\ calc = [op |-> "none"]
    /\ prices = None /\ ctor = None /\ ps = None /\ sel = None /\ cov_builds = 0 /\ cov_loop = None

NextCalc ==
    \/ CallFindMarginalCdf
    \/ CallFittedCdf
    \/ CallMlThetaHat
    \/ CallLogMl
    \/ CallAic

SpecCalc == InitCalc /\ [][NextCalc]_vars

----------------------------------------------------------------------------
(* PartnerSelection: bounds, inputs                                        *)

MaxAssets == 5      \* most columns of a price table
MaxTargets == 2     \* largest n_targets handed to a selection method
MaxBuilds == 2      \* most calls of extremal() in one behaviour

TopK == 50          \* the slice [1:51] of _top_50_tickers

Tickers == <<"A", "B", "C", "D", "E", "F", "G", "H">>

\* Price series (positive prices, four dates) a column can hold. Their
\* returns cover the six orders of three values, and one series (the
\* second) has three equal returns.
PriceSeries ==
    << <<8, 9, 11, 14>>, <<1, 2, 4, 8>>, <<10, 10, 12, 13>>, <<10, 11, 11, 13>>,
       <<10, 13, 13, 14>>, <<10, 11, 13, 13>>, <<10, 13, 15, 16>> >>

SeriesAt(i) == PriceSeries[((i - 1) % Len(PriceSeries)) + 1]

\* Each of the first three columns holds one of two neighbouring series of
\* the catalogue, so that a table may or may not contain columns with the
\* same ranked returns; the later columns hold one series each.
SeriesChoices(i) == IF i <= 3 THEN {SeriesAt(i), SeriesAt(i + 1)} ELSE {SeriesAt(i + 1)}

DataFrame(columns, data) == [type |-> "DataFrame", columns |-> columns, data |-> data]

\* Price tables of 2..MaxAssets columns.
Tables ==
    UNION {{DataFrame(SubSeq(Tickers, 1, n), d) :
                d \in {e \in [1..n -> UNION {SeriesChoices(i) : i \in 1..n}] :
                          \A i \in 1..n : e[i] \in SeriesChoices(i)}} :
           n \in 2..MaxAssets}

\* Price tables of 4..MaxAssets columns that hold the first two series in
\* turn: the prices differ, the ranked returns of all columns are the same.
AlikeTables ==
    {DataFrame(SubSeq(Tickers, 1, n), [i \in 1..n |-> SeriesAt(2 - (i % 2))]) :
        n \in 4..MaxAssets}

\* pd.DataFrame() and a table with columns but no rows.
EmptyTables == {DataFrame(<<>>, <<>>), DataFrame(<<"A", "B">>, << <<>>, <<>> >>)}

\* Arguments that are no DataFrame: an empty list, a list of two items, None.
NonTables == {[type |-> "list", len |-> 0], [type |-> "list", len |-> 2],
              [type |-> "NoneType"]}

\* len(prices) for a DataFrame (its number of rows) and a list.
PyLen(p) ==
    IF p.type = "DataFrame"
    THEN IF p.data = <<>> THEN 0 ELSE Len(p.data[1])
    ELSE p.len

----------------------------------------------------------------------------
(* PartnerSelection: preprocessing                                         *)

\* returns_df = universe.pct_change() ... .dropna(): with positive prices
\* only the first row is dropped; row t is (p[t+1] - p[t]) / p[t].
pct_change(p) == [t \in 1..(Len(p) - 1) |-> <<p[t + 1] - p[t], p[t]>>]

\* Series.rank(method='first', pct=True): rank among the column, equal values
\* ranked in order of appearance, divided by the number of rows.
rank_first_pct(r) ==
    [i \in 1..Len(r) |->
        <<1 + Cardinality({j \in 1..Len(r) : RLt(r[j], r[i])})
            + Cardinality({j \in 1..(i - 1) : REq(r[j], r[i])}),
          Len(r)>>]

\* _get_returns: per column, keyed by ticker.
get_returns(universe) ==
    LET names == {universe.columns[i] : i \in DOMAIN universe.columns}
        col(a) == CHOOSE i \in DOMAIN universe.columns : universe.columns[i] = a
        returns_df == [a \in names |-> pct_change(universe.data[col(a)])]
    IN  <<returns_df, [a \in names |-> rank_first_pct(returns_df[a])]>>

SeqSum(s) == SumOver(DOMAIN s, s)

\* Pearson correlation of two ranked columns. Both are permutations of
\* 1/n..n/n, so both variances are the same and the coefficient is the
\* rational (n*Sab - Sa*Sb) / (n*Saa - Sa*Sa) in the ranks.
pearson(u, v) ==
    LET n == Len(u)
        a == [t \in 1..n |-> u[t][1]]
        b == [t \in 1..n |-> v[t][1]]
    IN  <<n * SeqSum([t \in 1..n |-> a[t] * b[t]]) - SeqSum(a) * SeqSum(b),
          n * SeqSum([t \in 1..n |-> a[t] * a[t]]) - SeqSum(a) * SeqSum(a)>>

\* _correlation: ranked_returns.corr(method='pearson'); [row][column].
correlation(ranked_returns) ==
    [a \in DOMAIN ranked_returns |->
        [b \in DOMAIN ranked_returns |-> pearson(ranked_returns[a], ranked_returns[b])]]

\* col.sort_values(ascending=False): descending, equal values kept in index
\* order. Entries are <<ticker, value>>.
RECURSIVE InsertDesc(_, _)
InsertDesc(s, e) ==
    IF s = <<>> THEN <<e>>
    ELSE IF RLt(Head(s)[2], e[2]) THEN <<e>> \o s
    ELSE <<Head(s)>> \o InsertDesc(Tail(s), e)

RECURSIVE sort_values_desc(_)
sort_values_desc(col) ==
    IF col = <<>> THEN <<>>
    ELSE InsertDesc(sort_values_desc(SubSeq(col, 1, Len(col) - 1)), col[Len(col)])

\* Python's s[lo:hi] on a sequence.
Slice(s, lo, hi) ==
    LET h == IF hi < Len(s) THEN hi ELSE Len(s)
    IN  IF lo >= h THEN <<>> ELSE SubSeq(s, lo + 1, h)

\* tickers_list: the index of sort_values(ascending=False)[1:51].
tickers_list(col) ==
    LET sorted == Slice(sort_values_desc(col), 1, TopK + 1)
    IN  [i \in DOMAIN sorted |-> sorted[i][1]]

\* _top_50_tickers: tickers_list applied to every column of the correlation
\* matrix, transposed, so that the row of a ticker is its list.
top_50_tickers(columns, correlation_matrix) ==
    [a \in DOMAIN correlation_matrix |->
        tickers_list([i \in DOMAIN columns |->
                          <<columns[i], correlation_matrix[columns[i]][a]>>])]

\* A plausible slip: the last combination is lost.
RECURSIVE combinations_short(_, _)
combinations_short(pool, r) ==
    LET RECURSIVE all(_, _)
        all(q, k) ==
            IF k = 0 THEN << <<>> >>
            ELSE IF Len(q) < k THEN <<>>
            ELSE LET with == all(Tail(q), k - 1)
                 IN  [i \in DOMAIN with |-> <<Head(q)>> \o with[i]] \o all(Tail(q), k)
        c == all(pool, r)
    IN  SubSeq(c, 1, Len(c) - 1)

\* itertools.combinations(pool, r): the r-length subsequences of pool in
\* lexicographic order of their positions.
RECURSIVE combinations(_, _)
combinations(pool, r) ==
    IF r = 0 THEN << <<>> >>
    ELSE IF Len(pool) < r THEN <<>>
    ELSE LET with == combinations(Tail(pool), r - 1)
         IN  [i \in DOMAIN with |-> <<Head(pool)>> \o with[i]]
                 \o combinations(Tail(pool), r)

\* _generate_all_quadruples_helper(row), row.name being the target.
generate_all_quadruples_helper(target, row) ==
    LET triples == combinations(row, 3)
    IN  [i \in DOMAIN triples |-> <<target>> \o triples[i]]

\* _generate_all_quadruples
generate_all_quadruples(top_50_correlations) ==
    [a \in DOMAIN top_50_correlations |->
        generate_all_quadruples_helper(a, top_50_correlations[a])]

\* A plausible slip: the positions of the partners are counted from 0, as if
\* the target were not the first entry of stock_selection.
prepare_combinations_shifted(stock_selection) ==
    LET num_of_stocks == Len(stock_selection)
        partner_stocks_idx == [i \in 1..(num_of_stocks - 1) |-> i - 1]
        combs == combinations(partner_stocks_idx, 3)
    IN  [i \in DOMAIN combs |-> <<0>> \o combs[i]]

\* _prepare_combinations_of_partners(stock_selection): positions into
\* stock_selection, counted from 0, the target's position 0 first.
prepare_combinations_of_partners(stock_selection) ==
    LET num_of_stocks == Len(stock_selection)
        partner_stocks_idx == [i \in 1..(num_of_stocks - 1) |-> i]
        combs == combinations(partner_stocks_idx, 3)
    IN  [i \in DOMAIN combs |-> <<0>> \o combs[i]]

EmptyInputMessage == "Exception: Input does not contain any data"
InvalidTypeMessage == "Exception: Partner Selection Class requires a pandas DataFrame as input"

\* PartnerSelection.__init__: the attributes of self once it has run through.
NewPartnerSelection(p) ==
    LET rr == get_returns(p)
        correlation_matrix == correlation(rr[2])
        top_50_correlations == top_50_tickers(p.columns, correlation_matrix)
    IN  [tag |-> "PartnerSelection",
         universe |-> p,
         returns |-> rr[1],
         ranked_returns |-> rr[2],
         correlation_matrix |-> correlation_matrix,
         top_50_correlations |-> top_50_correlations,
         all_quadruples |-> generate_all_quadruples(top_50_correlations)]

\* PartnerSelection(prices). len(prices) comes first: it raises TypeError
\* for an object without a length; then the two checks of lines 40-44, in
\* that order; then the attributes are set.
Construct ==
    /\ ctor = None
    /\ IF prices.type = "NoneType"
       THEN ctor' = Raise("TypeError") /\ ps' = ps
       ELSE IF PyLen(prices) = 0
       THEN ctor' = Raise(EmptyInputMessage) /\ ps' = ps
       ELSE IF prices.type # "DataFrame"
       THEN ctor' = Raise(InvalidTypeMessage) /\ ps' = ps
       ELSE ctor' = Return(None) /\ ps' = NewPartnerSelection(prices)
    /\ UNCHANGED <<prices, sel, cov_builds, calcVars, cov_loop>>

----------------------------------------------------------------------------
(* The scorers of vine_copula_partner_selection_utils                      *)

PyList(items) == [tag |-> "list", items |-> items]

\* s[i] with Python's positions, which count from 0.
At0(s, i) == s[i + 1]

\* columns[list(combination)]: the labels at the positions of a combination.
Labels(stock_selection, comb) == [k \in DOMAIN comb |-> At0(stock_selection, comb[k])]

\* np.argmax / np.argmin: the first position holding the largest / smallest
\* score.
ArgMax(scores) ==
    CHOOSE i \in DOMAIN scores :
        /\ \A j \in DOMAIN scores : RLeq(scores[j], scores[i])
        /\ \A j \in 1..(i - 1) : RLt(scores[j], scores[i])

ArgMin(scores) ==
    CHOOSE i \in DOMAIN scores :
        /\ \A j \in DOMAIN scores : RLeq(scores[i], scores[j])
        /\ \A j \in 1..(i - 1) : RLt(scores[i], scores[j])

RECURSIVE Pow(_, _)
Pow(b, e) == IF e = 0 THEN 1 ELSE b * Pow(b, e - 1)

\* A plausible slip: the diagonal of the block is not taken off.
corr_sums_keep_diagonal(stock_selection, correlation_matrix, all_possible_combinations) ==
    LET data_subset(i, j) ==
            correlation_matrix[At0(stock_selection, i)][At0(stock_selection, j)]
        den == data_subset(0, 0)[2]
        block(c) == (DOMAIN c) \X (DOMAIN c)
    IN  [n \in DOMAIN all_possible_combinations |->
            LET c == all_possible_combinations[n]
            IN  <<SumOver(block(c), [q \in block(c) |-> data_subset(c[q[1]], c[q[2]])[1]]),
                  2 * den>>]

\* corr_sums of get_sum_correlations_vectorized. data_subset is the
\* correlation matrix restricted to stock_selection; all its entries have the
\* same denominator. The entry of a combination is the sum over its d x d
\* block (take_along_axis, then np.sum over axes 0 and 2), minus d, halved.
corr_sums(stock_selection, correlation_matrix, all_possible_combinations) ==
    LET data_subset(i, j) ==
            correlation_matrix[At0(stock_selection, i)][At0(stock_selection, j)]
        den == data_subset(0, 0)[2]
        block(c) == (DOMAIN c) \X (DOMAIN c)
    IN  [n \in DOMAIN all_possible_combinations |->
            LET c == all_possible_combinations[n]
                d == Len(c)
            IN  <<SumOver(block(c), [q \in block(c) |-> data_subset(c[q[1]], c[q[2]])[1]])
                    - d * den,
                  2 * den>>]

\* get_sum_correlations_vectorized: the labels of the first combination with
\* the largest corr_sums, and that sum.
get_sum_correlations_vectorized(stock_selection, correlation_matrix, all_possible_combinations) ==
    LET sums == corr_sums(stock_selection, correlation_matrix, all_possible_combinations)
        max_index == ArgMax(sums)
    IN  <<Labels(stock_selection, all_possible_combinations[max_index]), sums[max_index]>>

\* ecdf_df = returns.apply(lambda x: ECDF(x)(x)): per column, the fraction of
\* the column's returns that are <= the return of the row.
ecdf_column(r) ==
    [t \in DOMAIN r |-> <<Cardinality({j \in DOMAIN r : RLeq(r[j], r[t])}), Len(r)>>]

\* quadruples_scores of multivariate_rho_vectorized. With u = e/n: sum_1 = S1/n^d,
\* sum_2 = S2/n^d, sum_3 = S3/n^2, and over the denominator
\* 3 * (2^d - d - 1) * dc2 * n^(d+1) the three estimators add up to the
\* numerator below.
quadruples_scores(stock_selection, ecdf_df, all_possible_combinations) ==
    LET col(c, k) == ecdf_df[At0(stock_selection, c[k])]
        n == Len(ecdf_df[stock_selection[1]])
    IN      [m \in DOMAIN all_possible_combinations |->
                LET c == all_possible_combinations[m]
                    d == Len(c)
                    pairs == {q \in (DOMAIN c) \X (DOMAIN c) : q[1] < q[2]}
                    dc2 == Cardinality(pairs)
                    hnum == d + 1
                    hden == Pow(2, d) - d - 1
                    sum_1 == SeqSum([t \in 1..n |->
                                SeqProd([k \in DOMAIN c |-> n - col(c, k)[t][1]])])
                    sum_2 == SeqSum([t \in 1..n |->
                                SeqProd([k \in DOMAIN c |-> col(c, k)[t][1]])])
                    sum_3 == SeqSum([t \in 1..n |->
                                SumOver(pairs, [q \in pairs |->
                                    (n - col(c, q[1])[t][1]) * (n - col(c, q[2])[t][1])])])
                    \* rho_i over the common denominator hden * dc2 * n^(d+1)
                    rho_1 == hnum * dc2 * (Pow(2, d) * sum_1 - Pow(n, d + 1))
                    rho_2 == hnum * dc2 * (Pow(2, d) * sum_2 - Pow(n, d + 1))
                    rho_3 == hden * Pow(n, d - 2) * (12 * sum_3 - 3 * dc2 * Pow(n, 3))
                IN  <<rho_1 + rho_2 + rho_3, 3 * hden * dc2 * Pow(n, d + 1)>>]

\* multivariate_rho_vectorized: the labels of the first combination with the
\* largest mean of the three estimators, and that mean.
multivariate_rho_vectorized(stock_selection, ecdf_df, all_possible_combinations) ==
    LET scores == quadruples_scores(stock_selection, ecdf_df, all_possible_combinations)
        max_index == ArgMax(scores)
    IN  <<Labels(stock_selection, all_possible_combinations[max_index]), scores[max_index]>>

\* np.sqrt on fixed-point numbers: the integer square root of v * SqrtScale^2
\* is sqrt(v) in units of 1/SqrtScale.
SqrtScale == 1000

\* The largest r in lo..hi with r * r <= v, by bisection.
RECURSIVE IsqrtIn(_, _, _)
IsqrtIn(v, lo, hi) ==
    IF lo = hi THEN lo
    ELSE LET mid == (lo + hi + 1) \div 2
         IN  IF mid * mid <= v THEN IsqrtIn(v, mid, hi) ELSE IsqrtIn(v, lo, mid - 1)

\* sqrt of an integer v in units of 1/SqrtScale, rounded down.
Sqrt(v) ==
    LET whole == IsqrtIn(v, 0, v)
    IN  IsqrtIn(v * SqrtScale * SqrtScale, whole * SqrtScale, (whole + 1) * SqrtScale)

\* A plausible slip: the squared distances are summed, the root is left out.
distance_scores_squared(stock_selection, ranked_returns, all_possible_combinations) ==
    LET col(c, k) == ranked_returns[At0(stock_selection, c[k])]
        n == Len(ranked_returns[stock_selection[1]])
    IN  [m \in DOMAIN all_possible_combinations |->
            LET c == all_possible_combinations[m]
                d == Len(c)
                row(t) == [k \in DOMAIN c |-> col(c, k)[t][1]]
                pn2(t) == SeqSum([k \in DOMAIN c |-> row(t)[k] * row(t)[k]])
                pp(t) == SeqSum(row(t))
            IN  <<SeqSum([t \in 1..n |-> d * pn2(t) - pp(t) * pp(t)]), 1>>]

\* distance_scores of diagonal_measure_vectorized. For a row of ranks k/n, pn^2 - pp^2 is
\* (d * sum k^2 - (sum k)^2) / (d * n^2); the score is the sum over the rows
\* of its square root, here in units of 1 / (SqrtScale * n * sqrt(d)).
distance_scores(stock_selection, ranked_returns, all_possible_combinations) ==
    LET col(c, k) == ranked_returns[At0(stock_selection, c[k])]
        n == Len(ranked_returns[stock_selection[1]])
    IN  [m \in DOMAIN all_possible_combinations |->
            LET c == all_possible_combinations[m]
                d == Len(c)
                row(t) == [k \in DOMAIN c |-> col(c, k)[t][1]]
                pn2(t) == SeqSum([k \in DOMAIN c |-> row(t)[k] * row(t)[k]])
                pp(t) == SeqSum(row(t))
            IN  <<SeqSum([t \in 1..n |-> Sqrt(d * pn2(t) - pp(t) * pp(t))]), 1>>]

\* diagonal_measure_vectorized: the labels of the first combination with the
\* smallest distance_scores, and that score.
diagonal_measure_vectorized(stock_selection, ranked_returns, all_possible_combinations) ==
    LET scores == distance_scores(stock_selection, ranked_returns, all_possible_combinations)
        min_index == ArgMin(scores)
    IN  <<Labels(stock_selection, all_possible_combinations[min_index]), scores[min_index]>>

\* The sequence f[1], ..., f[n], written out (an array in memory).
RECURSIVE Array(_, _)
Array(f, n) == IF n = 0 THEN <<>> ELSE Append(Array(f, n - 1), f[n])

\* itertools.product([1, 2], [1, 2], [1, 2], [1, 2]) in its order: the last
\* position changes fastest.
ExponentTuples ==
    Array([i \in 1..16 |-> <<(((i - 1) \div 8) % 2) + 1, (((i - 1) \div 4) % 2) + 1,
                             (((i - 1) \div 2) % 2) + 1, ((i - 1) % 2) + 1>>], 16)

RECURSIVE GCD(_, _)
GCD(a, b) == IF b = 0 THEN a ELSE GCD(b, a % b)

Abs(v) == IF v < 0 THEN -v ELSE v

\* func(t, value) at t = k/n, times n^2: (t - 1)(3t - 1) and t(2 - 3t).
FuncNum(k, n, value) ==
    IF value = 1 THEN (k - n) * (3 * k - n) ELSE k * (2 * n - 3 * k)

\* The largest integer dividing func(k/n, value) * n^2 for every rank k and
\* both forms; func is kept in units of FuncUnit[n] / n^2.
RECURSIVE FuncUnitUpTo(_, _)
FuncUnitUpTo(n, k) ==
    IF k = 0 THEN 0
    ELSE GCD(GCD(FuncUnitUpTo(n, k - 1), Abs(FuncNum(k, n, 1))), Abs(FuncNum(k, n, 2)))

\* Number of rows of the returns of a price table.
NumReturns == Len(PriceSeries[1]) - 1

FuncUnit == Array([n \in 1..NumReturns |-> FuncUnitUpTo(n, n)], NumReturns)

\* func(t, value), t = <<k, n>>.
func(t, value) == FuncNum(t[1], t[2], value) \div FuncUnit[t[2]]

\* t_calc(u): 16 rows, one per exponent tuple, of the products over the four
\* columns of u.
t_calc(u) ==
    Array([l \in DOMAIN ExponentTuples |->
        Array([t \in DOMAIN u[1] |->
            func(u[1][t], ExponentTuples[l][1]) * func(u[2][t], ExponentTuples[l][2])
                * func(u[3][t], ExponentTuples[l][3]) * func(u[4][t], ExponentTuples[l][4])],
              Len(u[1]))], Len(ExponentTuples))

\* extremal_measure(u, co_variance_matrix): n * t' C t with t the mean of
\* t_calc over the rows, that is T' C T / n with T the row sums.
extremal_measure(u, co_variance_matrix) ==
    LET n == Len(u[1])
        tc == t_calc(u)
        T == Array([l \in DOMAIN tc |-> SeqSum(tc[l])], Len(tc))
    IN  <<SeqSum([i \in DOMAIN T |->
                SeqSum([j \in DOMAIN T |-> T[i] * co_variance_matrix[i][j] * T[j]])]), n>>

\* The integral over [0, 1] of func(u, a) * func(u, b), in thirtieths:
\* 2/15 when a = b, 1/30 otherwise.
FuncIntegral(a, b) == IF a = b THEN 4 ELSE 1

\* scipy.integrate.nquad(variance_integral_func, [(0, 1)] * 4, args=(l1, l2)):
\* the integrand is a product of one factor per dimension, so the integral is
\* the product of the four one-dimensional integrals (units of 30^-4).
nquad(l1, l2) ==
    FuncIntegral(l1[1], l2[1]) * FuncIntegral(l1[2], l2[2])
        * FuncIntegral(l1[3], l2[3]) * FuncIntegral(l1[4], l2[4])

Matrix(f, n) == Array([i \in 1..n |-> Array(f[i], n)], n)

MatMul(A, B) ==
    Matrix([i \in DOMAIN A |-> [j \in DOMAIN A |->
        SeqSum([k \in DOMAIN A |-> A[i][k] * B[k][j]])]], Len(A))

\* np.linalg.inv of the integrated matrix M (units of 30^-4): the matrix X
\* with M X = 1. With M the fourfold Kronecker power of [[4, 1], [1, 4]] / 30,
\* X is the fourfold Kronecker power of [[8, -2], [-2, 8]]; the product is
\* checked, and a matrix without that inverse is reported as singular.
inv(M) ==
    LET X == Matrix([i \in DOMAIN M |-> [j \in DOMAIN M |->
                SeqProd([d \in 1..4 |->
                    IF ExponentTuples[i][d] = ExponentTuples[j][d] THEN 8 ELSE -2])]], Len(M))
        one == Matrix([i \in DOMAIN M |-> [j \in DOMAIN M |->
                IF i = j THEN Pow(30, 4) ELSE 0]], Len(M))
    IN  IF MatMul(M, X) = one THEN X ELSE [tag |-> "LinAlgError"]

\* A plausible slip: the lower triangle is filled from the matrix itself, the
\* transpose is forgotten.
mirror_untransposed(M) ==
    Matrix([i \in DOMAIN M |-> [j \in DOMAIN M |-> M[i][j]]], Len(M))

\* co_variance_matrix[inds] = co_variance_matrix.T[inds] with
\* inds = np.tri(16, k=-1): the entries below the diagonal take the value of
\* the transposed position (the right-hand side is a copy), the others stay.
mirror(M) ==
    Matrix([i \in DOMAIN M |-> [j \in DOMAIN M |->
        IF j < i THEN M[j][i] ELSE M[i][j]]], Len(M))

\* get_co_variance_matrix(): integrals for j >= i only, the lower triangle
\* filled from the transpose, then the inverse.
get_co_variance_matrix ==
    LET upper == Matrix([i \in DOMAIN ExponentTuples |-> [j \in DOMAIN ExponentTuples |->
                    IF j < i THEN 0 ELSE nquad(ExponentTuples[i], ExponentTuples[j])]],
                        Len(ExponentTuples))
    IN  inv(mirror(upper))

----------------------------------------------------------------------------
(* The four selection methods                                              *)

\* self.top_50_correlations.index[:n_targets]
Targets(self, n_targets) == Slice(self.universe.columns, 0, n_targets)

\* [target] + self.top_50_correlations.loc[target].tolist()
StockSelection(self, target) == <<target>> \o self.top_50_correlations[target]

\* The scorer one of the vectorized methods hands a target's data to.
Scorer(self, method, stock_selection, all_possible_combinations) ==
    IF method = "traditional"
    THEN get_sum_correlations_vectorized(stock_selection, self.correlation_matrix,
                                         all_possible_combinations)
    ELSE IF method = "extended"
    THEN LET ecdf_df == [a \in DOMAIN self.returns |-> ecdf_column(self.returns[a])]
         IN  multivariate_rho_vectorized(stock_selection, ecdf_df, all_possible_combinations)
    ELSE diagonal_measure_vectorized(stock_selection, self.ranked_returns,
                                     all_possible_combinations)

\* The loop shared by traditional, extended and geometric. With fewer than
\* three partners the combination array is np.array([]), a float array, and
\* indexing with it raises IndexError.
VectorizedSelection(self, n_targets, method) ==
    LET targets == Targets(self, n_targets)
        combs(i) == prepare_combinations_of_partners(StockSelection(self, targets[i]))
    IN  IF \E i \in DOMAIN targets : combs(i) = <<>>
        THEN Raise("IndexError")
        ELSE Return([i \in DOMAIN targets |->
                        PyList(Scorer(self, method, StockSelection(self, targets[i]),
                                      combs(i))[1])])

traditional(self, n_targets) == VectorizedSelection(self, n_targets, "traditional")

extended(self, n_targets) == VectorizedSelection(self, n_targets, "extended")

geometric(self, n_targets) == VectorizedSelection(self, n_targets, "geometric")

\* A plausible slip: the comparison with the running maximum is >=, so that
\* of several quadruples with the largest measure the last one is kept.
RECURSIVE ExtremalScanKeepLast(_, _, _, _, _)
ExtremalScanKeepLast(self, co_variance_matrix, quadruples, i, best) ==
    IF i > Len(quadruples) THEN best
    ELSE LET quadruple == quadruples[i]
             measure == extremal_measure([k \in 1..4 |-> self.ranked_returns[quadruple[k]]],
                                         co_variance_matrix)
         IN  IF best[1] = None \/ (best[1] # None /\ RLeq(best[1], measure))
             THEN ExtremalScanKeepLast(self, co_variance_matrix, quadruples, i + 1,
                                       <<measure, PyList(quadruple)>>)
             ELSE ExtremalScanKeepLast(self, co_variance_matrix, quadruples, i + 1, best)

\* The inner loop of extremal over the quadruples of one target, from
\* position i on: best is <<max_measure, final_quadruple>>, max_measure None
\* standing for -inf.
RECURSIVE ExtremalScan(_, _, _, _, _)
ExtremalScan(self, co_variance_matrix, quadruples, i, best) ==
    IF i > Len(quadruples) THEN best
    ELSE LET quadruple == quadruples[i]
             measure == extremal_measure([k \in 1..4 |-> self.ranked_returns[quadruple[k]]],
                                         co_variance_matrix)
         IN  IF best[1] = None \/ (best[1] # None /\ RLt(best[1], measure))
             THEN ExtremalScan(self, co_variance_matrix, quadruples, i + 1,
                               <<measure, PyList(quadruple)>>)
             ELSE ExtremalScan(self, co_variance_matrix, quadruples, i + 1, best)

extremal(self, n_targets) ==
    LET co_variance_matrix == get_co_variance_matrix
        targets == Targets(self, n_targets)
    IN  Return([i \in DOMAIN targets |->
                   ExtremalScan(self, co_variance_matrix, self.all_quadruples[targets[i]],
                                1, <<None, None>>)[2]])

Call(method, n_targets, out) ==
    [tag |-> "call", method |-> method, n_targets |-> n_targets, out |-> out]

Traditional ==
    /\ ps.tag = "PartnerSelection"
    /\ \E n_targets \in 0..MaxTargets :
        sel' = Call("traditional", n_targets, traditional(ps, n_targets))
    /\ UNCHANGED <<prices, ctor, ps, cov_builds, calcVars, cov_loop>>

Extended ==
    /\ ps.tag = "PartnerSelection"
    /\ \E n_targets \in 0..MaxTargets :
        sel' = Call("extended", n_targets, extended(ps, n_targets))
    /\ UNCHANGED <<prices, ctor, ps, cov_builds, calcVars, cov_loop>>

Geometric ==
    /\ ps.tag = "PartnerSelection"
    /\ \E n_targets \in 0..MaxTargets :
        sel' = Call("geometric", n_targets, geometric(ps, n_targets))
    /\ UNCHANGED <<prices, ctor, ps, cov_builds, calcVars, cov_loop>>

\* Every call of extremal() starts with get_co_variance_matrix() (line 223).
Extremal ==
    /\ ps.tag = "PartnerSelection"
    /\ cov_builds < MaxBuilds
    /\ \E n_targets \in 0..MaxTargets :
        sel' = Call("extremal", n_targets, extremal(ps, n_targets))
    /\ cov_builds' = cov_builds + 1
    /\ UNCHANGED <<prices, ctor, ps, calcVars, cov_loop>>

InitSel ==
    /\ prices \in Tables \cup AlikeTables \cup EmptyTables \cup NonTables
    /\ ctor = None /\ ps = None /\ sel = None /\ cov_builds = 0 /\ cov_loop = None
    /\ request = None /\ fitted_cdf = None /\ calc = None

NextSel ==
    \/ Construct
    \/ Traditional
    \/ Extended
    \/ Geometric
    \/ Extremal

SpecSel == InitSel /\ [][NextSel]_vars

----------------------------------------------------------------------------
(* The vectorized scorers on their own: one call per behaviour, on a       *)
(* correlation matrix or a table of ranked returns fixed by Init.          *)

MaxSelection == 5   \* longest stock_selection (the target and its partners)

\* stock_selection: the target followed by at least three partners.
Selections == {SubSeq(Tickers, 1, m) : m \in 4..MaxSelection}

\* Off-diagonal correlations, in halves: -1/2 and 1.
CorrValues == {<<-1, 2>>, <<2, 2>>}

\* The symmetric matrices with unit diagonal over the labels of a selection.
CorrelationMatrices(stock_selection) ==
    LET labels == {stock_selection[i] : i \in DOMAIN stock_selection}
        pairs == {p \in SUBSET labels : Cardinality(p) = 2}
    IN  {[a \in labels |-> [b \in labels |-> IF a = b THEN <<2, 2>> ELSE e[{a, b}]]] :
            e \in [pairs -> CorrValues]}

\* Columns of ranked returns over three dates: rank(pct=True) gives k/3.
RankColumns ==
    {<<<<1, 3>>, <<2, 3>>, <<3, 3>>>>, <<<<1, 3>>, <<3, 3>>, <<2, 3>>>>,
     <<<<3, 3>>, <<2, 3>>, <<1, 3>>>>}

RankedReturns(stock_selection) ==
    [{stock_selection[i] : i \in DOMAIN stock_selection} -> RankColumns]

SumCorrelationsRequests ==
    UNION {[op : {"get_sum_correlations_vectorized"}, stock_selection : {sl},
            correlation_matrix : CorrelationMatrices(sl)] : sl \in Selections}

DiagonalMeasureRequests ==
    UNION {[op : {"diagonal_measure_vectorized"}, stock_selection : {sl},
            ranked_returns : RankedReturns(sl)] : sl \in Selections}

\* traditional() lines 151-155 for one target.
CallSumCorrelations ==
    /\ request.op = "get_sum_correlations_vectorized"
    /\ calc.op = "none"
    /\ calc' = [op |-> request.op,
                out |-> get_sum_correlations_vectorized(
                            request.stock_selection, request.correlation_matrix,
                            prepare_combinations_of_partners(request.stock_selection))]
    /\ UNCHANGED <<request, fitted_cdf, selVars, cov_loop>>

\* geometric() lines 202-206 for one target.
CallDiagonalMeasure ==
    /\ request.op = "diagonal_measure_vectorized"
    /\ calc.op = "none"
    /\ calc' = [op |-> request.op,
                out |-> diagonal_measure_vectorized(
                            request.stock_selection, request.ranked_returns,
                            prepare_combinations_of_partners(request.stock_selection))]
    /\ UNCHANGED <<request, fitted_cdf, selVars, cov_loop>>

InitScore ==
    /\ request \in SumCorrelationsRequests \cup DiagonalMeasureRequests
    /\ fitted_cdf = None
    /\ calc = [op |-> "none"]
    /\ prices = None /\ ctor = None /\ ps = None /\ sel = None /\ cov_builds = 0 /\ cov_loop = None

NextScore ==
    \/ CallSumCorrelations
    \/ CallDiagonalMeasure

SpecScore == InitScore /\ [][NextScore]_vars

----------------------------------------------------------------------------
(* get_co_variance_matrix step by step: the double loop over the exponent  *)
(* tuples (i, j count from 0 as enumerate does), the mirroring, the        *)
(* inversion.                                                              *)

\* np.zeros((16, 16))
Zeros == Matrix([i \in DOMAIN ExponentTuples |-> [j \in DOMAIN ExponentTuples |-> 0]],
                Len(ExponentTuples))

\* The loop position after (i, j): the next j, or the next i, or the end.
CovAdvance(c) ==
    IF c.j + 1 < Len(ExponentTuples) THEN [c EXCEPT !.j = c.j + 1]
    ELSE IF c.i + 1 < Len(ExponentTuples) THEN [c EXCEPT !.i = c.i + 1, !.j = 0]
    ELSE [c EXCEPT !.pc = "mirror"]

\* if j < i: continue
CovSkip ==
    /\ cov_loop.pc = "loop"
    /\ cov_loop.j < cov_loop.i
    /\ cov_loop' = CovAdvance(cov_loop)
    /\ UNCHANGED <<calcVars, selVars>>

\* co_variance_matrix[i, j] = nquad(variance_integral_func, ..., args=(l1, l2))[0]
CovIntegrate ==
    /\ cov_loop.pc = "loop"
    /\ ~(cov_loop.j < cov_loop.i)
    /\ cov_loop' = CovAdvance(
            [cov_loop EXCEPT !.co_variance_matrix[cov_loop.i + 1][cov_loop.j + 1] =
                            nquad(ExponentTuples[cov_loop.i + 1], ExponentTuples[cov_loop.j + 1]),
                        !.nquad_calls = Append(@, <<cov_loop.i, cov_loop.j>>)])
    /\ UNCHANGED <<calcVars, selVars>>

\* lines 148-149
CovMirror ==
    /\ cov_loop.pc = "mirror"
    /\ cov_loop' = [cov_loop EXCEPT !.pc = "invert",
                          !.co_variance_matrix = mirror(cov_loop.co_variance_matrix)]
    /\ UNCHANGED <<calcVars, selVars>>

\* return np.linalg.inv(co_variance_matrix)
CovInvert ==
    /\ cov_loop.pc = "invert"
    /\ cov_loop' = [cov_loop EXCEPT !.pc = "done", !.result = inv(cov_loop.co_variance_matrix)]
    /\ UNCHANGED <<calcVars, selVars>>

InitCov ==
    /\ cov_loop = [pc |-> "loop", i |-> 0, j |-> 0, co_variance_matrix |-> Zeros,
              nquad_calls |-> <<>>, result |-> None]
    /\ request = None /\ fitted_cdf = None /\ calc = None
    /\ prices = None /\ ctor = None /\ ps = None /\ sel = None /\ cov_builds = 0

NextCov ==
    \/ CovSkip
    \/ CovIntegrate
    \/ CovMirror
    \/ CovInvert

SpecCov == InitCov /\ [][NextCov]_vars

----------------------------------------------------------------------------
(* The error kinds of the specification, as the Python exceptions through  *)
(* which this code can signal them.                                        *)

InvalidFamilyErrors == {"InvalidFamily"}
DegenerateFitErrors == {"DegenerateFit"}
MissingParameterErrors == {"MissingParameter", "TypeError"}
InvalidSampleSizeErrors == {"InvalidSampleSize", "ZeroDivisionError"}
EmptyInputErrors == {"EmptyInput", EmptyInputMessage}
InvalidInputTypeErrors == {"InvalidInputType", InvalidTypeMessage, "TypeError"}

Fails(out, kinds) == out.status = "raise" /\ out.err \in kinds

----------------------------------------------------------------------------
(* Claims about copula_calculation, checked under SpecCalc.                *)

\* The fraction of sample points <= q, counted directly.
FractionLeq(x, q) == <<Cardinality({j \in DOMAIN x : x[j] <= q}), Len(x)>>

\* C1: with a non-empty sample and floor <= cap, every value the returned
\* CDF gives (scalar or element of an array of query points) lies in
\* [floor, cap] and is the fraction of sample points <= x clamped into it.
C1_CdfWithinFloorCap ==
    (calc.op = "fitted_cdf" /\ RLeq(request.prob_floor, request.prob_cap)) =>
        \A i \in DOMAIN request.data :
            LET v == calc.out[i]
                frac == FractionLeq(request.x, request.data[i])
                fl == request.prob_floor
                cp == request.prob_cap
            IN  /\ i \in DOMAIN calc.out
                /\ RLeq(fl, v) /\ RLeq(v, cp)
                /\ REq(v, IF RLt(frac, fl) THEN fl ELSE IF RLt(cp, frac) THEN cp ELSE frac)

\* An array of two query points, the first clamped up to the floor and the
\* second clamped down to the cap, with floor < cap.
C1_Witness ==
    /\ calc.op = "fitted_cdf"
    /\ RLt(request.prob_floor, request.prob_cap)
    /\ Len(request.data) = 2
    /\ RLt(FractionLeq(request.x, request.data[1]), request.prob_floor)
    /\ RLt(request.prob_cap, FractionLeq(request.x, request.data[2]))
    /\ calc.out = <<request.prob_floor, request.prob_cap>>

\* C2: ml_theta_hat with family "Gaussian" or "Student" always fails with
\* an InvalidFamily error and never returns a parameter value.
C2_EllipticalFamiliesRejected ==
    (calc.op = "ml_theta_hat" /\ request.copula_name \in {"Gaussian", "Student"}) =>
        Fails(calc.out, InvalidFamilyErrors)

\* C3: when log_ml has fitted a model and the model's density at some data
\* pair is zero or negative, the call ends in a DegenerateFit error and
\* returns no (log_likelihood_sum, model) pair.
C3_NonPositiveDensityFails ==
    (/\ calc.op = "log_ml"
     /\ fit_copula(request.xy[1], request.xy[2], request.copula_name, request.nu).failed = FALSE
     /\ \E i \in DOMAIN request.likelihood_list : request.likelihood_list[i] <= 0) =>
        Fails(calc.out, DegenerateFitErrors)

\* C4: log_ml with family "Student" and nu None fails with a
\* missing-parameter error before a covariance is estimated or a model is
\* constructed; in every other call with "Student" the constructed model
\* carries the given nu.
C4_StudentNeedsNu ==
    (calc.op = "log_ml" /\ request.copula_name = "Student") =>
        IF request.nu.tag = "None"
        THEN /\ Fails(calc.out, MissingParameterErrors)
             /\ calc.out.estimated = FALSE
             /\ calc.out.my_copula = None
        ELSE calc.out.my_copula.tag = "copula" => calc.out.my_copula.nu = request.nu

\* log_ml was called with "Student" and no nu, and has failed.
C4_Witness ==
    /\ calc.op = "log_ml"
    /\ request.copula_name = "Student"
    /\ request.nu.tag = "None"
    /\ calc.out.status = "raise"

\* C5: aic fails with an InvalidSampleSize error whenever n <= k+1, and for
\* n > k+1 returns (2n/(n-k-1))*k - 2*log_likelihood.
C5_AicGuarded ==
    calc.op = "aic" =>
        IF request.n <= request.k + 1
        THEN Fails(calc.out, InvalidSampleSizeErrors)
        ELSE /\ calc.out.status = "return"
             /\ REq(calc.out.value,
                    <<2 * request.n * request.k
                        - 2 * request.log_likelihood * (request.n - request.k - 1),
                      request.n - request.k - 1>>)

----------------------------------------------------------------------------
(* Claims about PartnerSelection, checked under SpecSel.                   *)

Constructed == ps.tag = "PartnerSelection"

Assets == {ps.universe.columns[i] : i \in DOMAIN ps.universe.columns}

Range(s) == {s[i] : i \in DOMAIN s}

Distinct(s) == \A i, j \in DOMAIN s : i # j => s[i] # s[j]

\* The number of 3-element subsets of a set of m elements.
Choose3(m) == (m * (m - 1) * (m - 2)) \div 6

\* The position of a label in a list without repetitions.
PositionIn(row, a) == CHOOSE i \in DOMAIN row : row[i] = a

\* Lexicographic order on triples of integers.
LexLess(x, y) ==
    \/ x[1] < y[1]
    \/ x[1] = y[1] /\ x[2] < y[2]
    \/ x[1] = y[1] /\ x[2] = y[2] /\ x[3] < y[3]

\* C6: for a target whose neighbour list has m distinct entries, candidate
\* generation yields exactly C(m, 3) quadruples (19600 for m = 50), each the
\* target followed by three pairwise-distinct neighbours, no two with the
\* same set of assets, in lexicographic order of their positions in the
\* neighbour list; the index combinations of
\* _prepare_combinations_of_partners likewise.
C6_CandidatesExhaustiveOrdered ==
    /\ Choose3(TopK) = 19600
    /\ Constructed =>
        \A target \in Assets :
            LET row == ps.top_50_correlations[target]
                m == Len(row)
                quadruples == ps.all_quadruples[target]
                pos(i) == <<PositionIn(row, quadruples[i][2]),
                            PositionIn(row, quadruples[i][3]),
                            PositionIn(row, quadruples[i][4])>>
                combs == prepare_combinations_of_partners(<<target>> \o row)
            IN  Distinct(row) =>
                /\ Len(quadruples) = Choose3(m)
                /\ \A i \in DOMAIN quadruples :
                    /\ Len(quadruples[i]) = 4
                    /\ quadruples[i][1] = target
                    /\ {quadruples[i][2], quadruples[i][3], quadruples[i][4]} \subseteq Range(row)
                    /\ pos(i)[1] < pos(i)[2] /\ pos(i)[2] < pos(i)[3]
                /\ \A i, j \in DOMAIN quadruples :
                    i < j => /\ Range(quadruples[i]) # Range(quadruples[j])
                             /\ LexLess(pos(i), pos(j))
                /\ Len(combs) = Choose3(m)
                /\ \A i \in DOMAIN combs :
                    /\ Len(combs[i]) = 4
                    /\ combs[i][1] = 0
                    /\ 1 <= combs[i][2] /\ combs[i][2] < combs[i][3]
                    /\ combs[i][3] < combs[i][4] /\ combs[i][4] <= m
                /\ \A i, j \in DOMAIN combs :
                    i < j => LexLess(Tail(combs[i]), Tail(combs[j]))

\* A target with four distinct neighbours and its four candidates.
C6_Witness ==
    /\ Constructed
    /\ \E target \in Assets :
        /\ Len(ps.top_50_correlations[target]) = 4
        /\ Distinct(ps.top_50_correlations[target])
        /\ Len(ps.all_quadruples[target]) = 4

\* C7: for every asset a, the top-50 list of a never contains a, contains
\* the min(50, N-1) other assets with the highest correlation to a, and is in
\* non-increasing order of correlation.
C7_TopListExcludesSelf ==
    Constructed =>
        \A a \in Assets :
            LET row == ps.top_50_correlations[a]
                corr(b) == ps.correlation_matrix[b][a]
                others == Assets \ {a}
                k == IF Cardinality(others) < TopK THEN Cardinality(others) ELSE TopK
            IN  /\ a \notin Range(row)
                /\ Len(row) = k /\ Distinct(row) /\ Range(row) \subseteq others
                /\ \A b \in Range(row), c \in others \ Range(row) : RLeq(corr(c), corr(b))
                /\ \A i, j \in DOMAIN row : i < j => RLeq(corr(row[j]), corr(row[i]))

NumAssets == Len(ps.universe.columns)

\* C8: for each of the four methods and every n_targets >= 0 the returned
\* list has min(n_targets, number of assets) entries, the i-th a quadruple
\* (not an empty or missing value) that starts with the i-th asset of the
\* universe, and the entry of a target is the same whichever other targets
\* are requested.
C8_OneQuadruplePerTarget ==
    /\ [](sel.tag = "call" /\ sel.out.status = "return" =>
            LET output_matrix == sel.out.value
            IN  /\ Len(output_matrix) =
                        (IF sel.n_targets < NumAssets THEN sel.n_targets ELSE NumAssets)
                /\ \A i \in DOMAIN output_matrix :
                    /\ output_matrix[i].tag = "list"
                    /\ Len(output_matrix[i].items) = 4
                    /\ output_matrix[i].items[1] = ps.universe.columns[i])
    /\ [][(/\ sel.tag = "call" /\ sel'.tag = "call"
           /\ sel.method = sel'.method
           /\ sel.out.status = "return" /\ sel'.out.status = "return") =>
              \A i \in DOMAIN sel.out.value \cap DOMAIN sel'.out.value :
                  sel.out.value[i] = sel'.out.value[i]]_vars

\* C9: across any sequence of calls of extremal() in one process the 16x16
\* matrix is integrated and inverted at most once.
C9_CovarianceBuiltOnce == cov_builds <= 1

\* C10: constructing PartnerSelection with a table without rows fails with
\* an EmptyInput error, with an argument that is no DataFrame (empty,
\* non-empty or without a length) with an InvalidInputType error; in both
\* cases no attribute of the object has been set.
C10_InputValidatedFirst ==
    ctor # None =>
        /\ (prices.type = "DataFrame" /\ PyLen(prices) = 0) =>
                Fails(ctor, EmptyInputErrors) /\ ps = None
        /\ prices.type # "DataFrame" =>
                Fails(ctor, InvalidInputTypeErrors) /\ ps = None

----------------------------------------------------------------------------
(* Claims about the scorers (SpecScore)                                    *)

\* The sum of the correlations of the six pairs of a combination, iterated
\* directly.
PairwiseSum(stock_selection, correlation_matrix, c) ==
    LET pairs == {q \in (DOMAIN c) \X (DOMAIN c) : q[1] < q[2]}
        corr(q) == correlation_matrix[At0(stock_selection, c[q[1]])]
                                     [At0(stock_selection, c[q[2]])]
    IN  <<SumOver(pairs, [q \in pairs |-> corr(q)[1]]),
          correlation_matrix[stock_selection[1]][stock_selection[1]][2]>>

\* C11: on a symmetric correlation matrix with unit diagonal, the score
\* get_sum_correlations_vectorized gives a combination, (sum of its 4x4
\* block - 4) / 2, equals the sum of its six pairwise correlations, and the
\* call returns a combination with the largest such sum together with that
\* sum.
C11_SumEqualsPairwiseSum ==
    (calc.op = "get_sum_correlations_vectorized") =>
        LET sl == request.stock_selection
            cm == request.correlation_matrix
            combs == prepare_combinations_of_partners(sl)
            sums == corr_sums(sl, cm, combs)
        IN  /\ \A n \in DOMAIN combs : REq(sums[n], PairwiseSum(sl, cm, combs[n]))
            /\ \E n \in DOMAIN combs :
                /\ calc.out[1] = Labels(sl, combs[n])
                /\ REq(calc.out[2], PairwiseSum(sl, cm, combs[n]))
                /\ \A k \in DOMAIN combs :
                    RLeq(PairwiseSum(sl, cm, combs[k]), PairwiseSum(sl, cm, combs[n]))

\* One quadruple with all pairwise correlations 1, every other correlation
\* at most 1/2, and that quadruple not the first candidate: it is selected.
C11_Witness ==
    /\ calc.op = "get_sum_correlations_vectorized"
    /\ Len(request.stock_selection) = 5
    /\ calc.out[1] = <<"A", "B", "D", "E">>
    /\ REq(calc.out[2], <<6, 1>>)
    /\ \A a \in {"A", "B", "D", "E"} : request.correlation_matrix[a]["C"] = <<-1, 2>>

\* The ranks (numerators) of the assets of a combination at date t.
RanksAt(stock_selection, ranked_returns, c, t) ==
    [k \in DOMAIN c |-> ranked_returns[At0(stock_selection, c[k])][t][1]]

\* The sum over the dates of the perpendicular distance of the point of the
\* d ranks from the diagonal, computed directly: the distance of x from its
\* projection (mean, ..., mean) is sqrt(sum_k (x_k - S/d)^2), that is
\* sqrt(sum_k (d x_k - S)^2 / d) in the unit of distance_scores.
PerpendicularDistanceSum(stock_selection, ranked_returns, c) ==
    LET d == Len(c)
        n == Len(ranked_returns[stock_selection[1]])
        x(t) == RanksAt(stock_selection, ranked_returns, c, t)
        sq(t) == SeqSum([k \in DOMAIN c |->
                    (d * x(t)[k] - SeqSum(x(t))) * (d * x(t)[k] - SeqSum(x(t)))])
    IN  <<SeqSum([t \in 1..n |-> Sqrt(sq(t) \div d)]), 1>>

\* The four ranks of a combination are equal at every date.
OnDiagonal(stock_selection, ranked_returns, c) ==
    \A t \in DOMAIN ranked_returns[stock_selection[1]] :
        \A k \in DOMAIN c :
            RanksAt(stock_selection, ranked_returns, c, t)[k]
                = RanksAt(stock_selection, ranked_returns, c, t)[1]

\* C12: diagonal_measure_vectorized scores every combination with the sum
\* over the rows of the perpendicular distance of the four ranks from the
\* hyper-diagonal, a number >= 0; a combination with four equal ranks in
\* every row scores exactly 0, and when it is the only such combination it
\* is the one returned.
C12_DiagonalMeasureIsDistance ==
    (calc.op = "diagonal_measure_vectorized") =>
        LET sl == request.stock_selection
            rr == request.ranked_returns
            combs == prepare_combinations_of_partners(sl)
            scores == distance_scores(sl, rr, combs)
            diagonal == {n \in DOMAIN combs : OnDiagonal(sl, rr, combs[n])}
        IN  /\ \A n \in DOMAIN combs :
                /\ RLeq(<<0, 1>>, scores[n])
                /\ REq(scores[n], PerpendicularDistanceSum(sl, rr, combs[n]))
                /\ n \in diagonal => REq(scores[n], <<0, 1>>)
            /\ \A n \in diagonal :
                diagonal = {n} =>
                    /\ calc.out[1] = Labels(sl, combs[n])
                    /\ REq(calc.out[2], <<0, 1>>)

\* Exactly one combination lies on the diagonal, not the first one, and it
\* is returned with score 0.
C12_Witness ==
    /\ calc.op = "diagonal_measure_vectorized"
    /\ Len(request.stock_selection) = 5
    /\ \A a \in {"B", "D", "E"} : request.ranked_returns[a] = request.ranked_returns["A"]
    /\ request.ranked_returns["C"] # request.ranked_returns["A"]
    /\ calc.out[1] = <<"A", "B", "D", "E">>
    /\ REq(calc.out[2], <<0, 1>>)

----------------------------------------------------------------------------
(* Claims about get_co_variance_matrix (SpecCov)                           *)

\* The index pairs of the loop that come before position (i, j).
PairsBefore(i, j) ==
    {p \in (0..(Len(ExponentTuples) - 1)) \X (0..(Len(ExponentTuples) - 1)) :
        p[1] < i \/ (p[1] = i /\ p[2] < j)}

UpperPairs(S) == {p \in S : p[1] <= p[2]}

\* C13: the loop evaluates an integral for the 136 index pairs with i <= j,
\* each once, and for no pair with j < i; after the mirroring the matrix is
\* symmetric, every entry below the diagonal is the integral of the
\* transposed index, and the mirroring changes no entry on or above the
\* diagonal.
C13_UpperTriangleMirrored ==
    /\ [](cov_loop # None =>
            LET M == cov_loop.co_variance_matrix
                E == ExponentTuples
                calls == {cov_loop.nquad_calls[n] : n \in DOMAIN cov_loop.nquad_calls}
                all == PairsBefore(Len(E), 0)
            IN  /\ Cardinality(calls) = Len(cov_loop.nquad_calls)
                /\ \A p \in calls : ~(p[2] < p[1])
                /\ cov_loop.pc = "loop" => calls = UpperPairs(PairsBefore(cov_loop.i, cov_loop.j))
                /\ cov_loop.pc # "loop" =>
                        /\ calls = UpperPairs(all)
                        /\ Len(cov_loop.nquad_calls) = 136
                /\ cov_loop.pc \in {"invert", "done"} =>
                        \A i, j \in DOMAIN M :
                            /\ M[i][j] = M[j][i]
                            /\ j < i => M[i][j] = nquad(E[j], E[i])
                /\ cov_loop.pc = "done" => cov_loop.result = get_co_variance_matrix)
    /\ [][cov_loop # None /\ cov_loop.pc = "mirror" =>
            \A i, j \in DOMAIN cov_loop.co_variance_matrix :
                i <= j => cov_loop'.co_variance_matrix[i][j] = cov_loop.co_variance_matrix[i][j]]_vars

\* The call has returned after 136 integrals, with entries off the diagonal
\* that are not 0.
C13_Witness ==
    /\ cov_loop # None
    /\ cov_loop.pc = "done"
    /\ Len(cov_loop.nquad_calls) = 136
    /\ cov_loop.co_variance_matrix[16][1] = nquad(ExponentTuples[1], ExponentTuples[16])
    /\ cov_loop.co_variance_matrix[16][1] # 0

----------------------------------------------------------------------------
(* Further claims about PartnerSelection (SpecSel)                         *)

\* C14: for every target the i-th quadruple of all_quadruples[target], which
\* extremal scans, is the list of labels that the i-th index combination of
\* _prepare_combinations_of_partners selects from [target] + the top-50 list
\* of the target, which traditional, extended and geometric scan: the same
\* candidates in the same order.
C14_EnumerationsAgree ==
    Constructed =>
        \A target \in Assets :
            LET stock_selection == StockSelection(ps, target)
                combs == prepare_combinations_of_partners(stock_selection)
                quadruples == ps.all_quadruples[target]
            IN  /\ Len(quadruples) = Len(combs)
                /\ \A i \in DOMAIN quadruples :
                    quadruples[i] = Labels(stock_selection, combs[i])

\* A target with four candidates, the last of them made of the target and
\* the last three entries of its list.
C14_Witness ==
    /\ Constructed
    /\ \E target \in Assets :
        LET row == ps.top_50_correlations[target]
            combs == prepare_combinations_of_partners(StockSelection(ps, target))
        IN  /\ Len(row) = 4
            /\ Len(combs) = 4
            /\ combs[4] = <<0, 2, 3, 4>>
            /\ ps.all_quadruples[target][4] = <<target, row[2], row[3], row[4]>>
            /\ row[1] # target

\* The candidates of a target in the order a method scans them.
Candidates(self, method, target) ==
    IF method = "extremal" THEN self.all_quadruples[target]
    ELSE LET stock_selection == StockSelection(self, target)
             combs == prepare_combinations_of_partners(stock_selection)
         IN  [n \in DOMAIN combs |-> Labels(stock_selection, combs[n])]

\* The score a method gives to each candidate of a target.
CandidateScores(self, method, target) ==
    LET stock_selection == StockSelection(self, target)
        combs == prepare_combinations_of_partners(stock_selection)
    IN  IF method = "traditional"
        THEN corr_sums(stock_selection, self.correlation_matrix, combs)
        ELSE IF method = "extended"
        THEN quadruples_scores(stock_selection,
                               [a \in DOMAIN self.returns |-> ecdf_column(self.returns[a])],
                               combs)
        ELSE IF method = "geometric"
        THEN distance_scores(stock_selection, self.ranked_returns, combs)
        ELSE [n \in DOMAIN self.all_quadruples[target] |->
                extremal_measure([k \in 1..4 |->
                                     self.ranked_returns[self.all_quadruples[target][n][k]]],
                                 get_co_variance_matrix)]

\* Score a is strictly better than score b: smaller for geometric, larger
\* for the other methods.
Better(method, a, b) == IF method = "geometric" THEN RLt(a, b) ELSE RLt(b, a)

\* The positions of the candidates with the best score.
BestPositions(method, scores) ==
    {n \in DOMAIN scores : \A k \in DOMAIN scores : ~Better(method, scores[k], scores[n])}

\* C15: of the candidates of a target that tie for the best score every
\* method returns the one that comes first in the enumeration order, and a
\* repeated call of a method returns the same quadruples.
C15_FirstOfTiedCandidates ==
    /\ [](sel.tag = "call" /\ sel.out.status = "return" =>
            \A i \in DOMAIN sel.out.value :
                LET target == ps.universe.columns[i]
                    cands == Candidates(ps, sel.method, target)
                    best == BestPositions(sel.method,
                                          CandidateScores(ps, sel.method, target))
                IN  cands # <<>> =>
                        \E n \in best :
                            /\ sel.out.value[i] = PyList(cands[n])
                            /\ \A k \in best : n <= k)
    /\ [][(/\ sel.tag = "call" /\ sel'.tag = "call"
           /\ sel.method = sel'.method /\ sel.n_targets = sel'.n_targets) =>
                sel'.out = sel.out]_vars

\* extremal() has returned for a target of which two candidates tie for the
\* largest measure.
C15_Witness ==
    /\ sel.tag = "call" /\ sel.out.status = "return"
    /\ sel.method = "extremal"
    /\ \E i \in DOMAIN sel.out.value :
        LET target == ps.universe.columns[i]
            cands == Candidates(ps, sel.method, target)
            best == BestPositions(sel.method, CandidateScores(ps, sel.method, target))
        IN  /\ Cardinality(best) >= 2
            /\ \E n \in best : sel.out.value[i] = PyList(cands[n])

====
